---------------------------- MODULE Spec2Model ----------------------------
(***************************************************************************)
(* A model of the SimpleAzureJobRunner deployment utilities:               *)
(*   azure_vms.py              AzureVmState, AzureVms (the VM controller)  *)
(*   install_extensions.py     process_vm, install_extensions              *)
(*   remove_orphaned_accounts.py  check_orphans, find_orphaned_roles,      *)
(*                             remove_orphaned_account                     *)
(*   az_cmd.py                 run_az_cmd (the command gateway)            *)
(*                                                                         *)
(* Three specifications share the module:                                  *)
(*   Spec         a client driving one AzureVms controller                 *)
(*   SpecInstall  install_extensions over a fleet                          *)
(*   SpecOrphan   remove_orphaned_account                                  *)
(* Time is the integer number of seconds read by time.time(), counted from  *)
(* the start of the process.                                               *)
(***************************************************************************)
EXTENDS Integers, Sequences, FiniteSets, TLC

VARIABLES
    now,                      \* time.time(), in seconds since the process started
    ticks,                    \* number of clock advances made by the client
    unavailable_timeout,      \* AzureVms.unavailable_timeout
    unavailable_state,        \* AzureVms.unavailable_state
    unavailable_retry_time,   \* AzureVms.unavailable_retry_time
    os_profile,               \* platform: vm.os_profile of every VM
    vms,                      \* the AzureVmState objects the client holds
    n_calls,                  \* history: number of try_start_vm calls made
    n_started,                \* history: number of begin_start requests issued
    last,                     \* history: what the latest try_start_vm call did
    conflict                  \* history: the latest call that failed with a conflict

ctlVars == <<now, ticks, unavailable_timeout, unavailable_state,
             unavailable_retry_time, os_profile, vms, n_calls, n_started, last,
             conflict>>

VARIABLES
    pc,                       \* install_extensions: where the run stands
    run,                      \* how many times the command has been run
    names,                    \* install_extensions: the VM names asked for
    queue,                    \* install_extensions: the values of vms still to process
    vm_local,                 \* process_vm: its local variable vm
    timeout_start,            \* process_vm: Timeout.start
    boot_at,                  \* platform: when the VM turns running (-1: never)
    pending_view,             \* platform: the instance view reported until then
    refetches,                \* history: get_vm_state calls of the wait loop
    extensions,               \* process_vm: the keys of the extension listing
    cmds,                     \* history: az commands issued by this process_vm
    result,                   \* history: how the latest process_vm ended
    prev                      \* history: the process_vm call before this one

instVars == <<pc, run, names, queue, vm_local, timeout_start, boot_at, pending_view,
              refetches, extensions, cmds, result, prev>>

VARIABLES
    o_pc,                     \* remove_orphaned_account: where the run stands
    json_file,                \* argument: a report file is given
    dry_run,                  \* argument
    data,                     \* the report: has the key, data["Stale identities"]
    directory,                \* platform: what "ad user show" answers per principal
    assignments,              \* platform: the live role assignments
    items,                    \* find_orphaned_roles: result
    pos,                      \* index of the running loop
    role_assignments_by_scope,\* the scopes whose listing is cached
    known_good_users,         \* find_orphaned_roles: known_good_users
    roles_to_remove_by_scope, \* the removal set, in insertion order
    todo,                     \* what the deletion loops have still to visit
    errors,                   \* the error summary: messages per (scope, role_id)
    lookups,                  \* history: "ad user show" commands per principal
    fetches,                  \* history: "role assignment list" commands per scope
    deletes,                  \* history: delete commands per (scope, role_id)
    failures,                 \* history: failed delete commands per (scope, role_id)
    prints                    \* history: DRY RUN lines per (scope, role_id)

orphVars == <<o_pc, json_file, dry_run, data, directory, assignments, items, pos,
              role_assignments_by_scope, known_good_users,
              roles_to_remove_by_scope, todo, errors, lookups, fetches, deletes,
              failures, prints>>

VARIABLES
    az_call,                  \* run_az_cmd: the completed process and no_data_ok
    az_outcome,               \* run_az_cmd: what the call returned or raised
    az_calls,                 \* history: number of run_az_cmd calls
    az_runs,                  \* history: number of subprocess.run calls
    view_statuses,            \* get_power_state: instance_view.statuses, as codes
    power_state               \* get_power_state: the value returned

pureVars == <<az_call, az_outcome, az_calls, az_runs, view_statuses, power_state>>

vars == <<ctlVars, instVars, orphVars, pureVars>>

---------------------------------------------------------------------------
(* Bounds of the model *)

MaxTicks == 2
MaxCalls == 3

(* Program constants *)

DEFAULT_UNAVAILABLE_TIMEOUT == 600

VmNames == {"vm1", "vm2"}

\* unavailable_timeout is a constructor parameter; the default and the
\* degenerate window of length zero are both explored.
Timeouts == {0, DEFAULT_UNAVAILABLE_TIMEOUT}

\* amounts by which the clock advances between two client calls
TickSteps == {1, DEFAULT_UNAVAILABLE_TIMEOUT}

---------------------------------------------------------------------------
(* AzureVmState *)

DEALLOCATED == "PowerState/deallocated"
DEALLOCATING == "PowerState/deallocating"
RUNNING == "PowerState/running"
STARTING == "PowerState/starting"
STOPPED == "PowerState/stopped"
KNOWN_STATES == {DEALLOCATED, DEALLOCATING, RUNNING, STARTING, STOPPED}

\* mutant of AzureVmState_assert: both flags may be true
AzureVmState_assert_either(is_linux, is_windows) == is_linux \/ is_windows

\* the assertion of the constructor
AzureVmState_assert(is_linux, is_windows) == is_linux # is_windows

\* AzureVmState.__init__ at time t
AzureVmState(name, state, is_linux, is_windows, t) ==
    [name |-> name, state |-> state,
     is_linux |-> is_linux, is_windows |-> is_windows,
     starting |-> (state = STARTING),
     deallocating |-> (state # STARTING /\ state = DEALLOCATING),
     start_time |-> IF state = STARTING THEN t ELSE 0,
     deallocate_time |-> IF state # STARTING /\ state = DEALLOCATING THEN t ELSE 0]

is_running(vm) == vm.state = RUNNING

is_starting_or_running(vm) == is_running(vm) \/ vm.state = STARTING

\* mutant of is_deallocated: a stopped VM is not counted
is_deallocated_not_stopped(vm) ==
    \/ vm.state = DEALLOCATING
    \/ vm.state = DEALLOCATED

is_deallocated(vm) ==
    \/ vm.state = DEALLOCATING
    \/ vm.state = DEALLOCATED
    \/ vm.state = STOPPED

is_unknown_state(vm) == vm.state \notin KNOWN_STATES

\* mutant of on_start: the state is left as it was
on_start_keeps_state(vm, t) ==
    [vm EXCEPT !.starting = TRUE, !.start_time = t, !.deallocating = FALSE]

\* mutant of on_start: the deallocating flag is left as it was
on_start_keeps_deallocating(vm, t) ==
    [vm EXCEPT !.starting = TRUE, !.start_time = t, !.state = STARTING]

on_start(vm, t) ==
    [vm EXCEPT !.starting = TRUE, !.start_time = t,
               !.state = STARTING, !.deallocating = FALSE]

\* mutant of on_deallocate: the starting flag is left as it was
on_deallocate_keeps_starting(vm, t) ==
    [vm EXCEPT !.state = DEALLOCATING, !.deallocating = TRUE, !.deallocate_time = t]

on_deallocate(vm, t) ==
    [vm EXCEPT !.starting = FALSE, !.state = DEALLOCATING,
               !.deallocating = TRUE, !.deallocate_time = t]

---------------------------------------------------------------------------
(* AzureVms *)

\* status codes an instance view may carry
StatusCodes == KNOWN_STATES \cup {"PowerState/stopping", "ProvisioningState/succeeded", ""}

\* instance views returned by the platform: the provisioning status first,
\* then at most one further status
InstanceViews ==
    {<<>>, <<"ProvisioningState/succeeded">>}
        \cup {<<"ProvisioningState/succeeded", c>> : c \in StatusCodes}
        \cup {<<RUNNING, DEALLOCATED>>}

\* str.startswith("PowerState") on the status codes of the model
startswith_PowerState(code) ==
    code \in KNOWN_STATES \cup {"PowerState/stopping"}

RECURSIVE get_power_state_from(_, _)
get_power_state_from(statuses, i) ==
    IF i > Len(statuses) THEN "unknown"
    ELSE IF statuses[i] # "" /\ startswith_PowerState(statuses[i]) THEN statuses[i]
    ELSE get_power_state_from(statuses, i + 1)

\* mutant of get_power_state: the last qualifying status wins
get_power_state_last(instance_view) ==
    LET hits == {i \in 1..Len(instance_view) :
                    instance_view[i] # "" /\ startswith_PowerState(instance_view[i])}
    IN  IF hits = {} THEN "unknown"
        ELSE instance_view[CHOOSE i \in hits : \A j \in hits : j <= i]

get_power_state(instance_view) == get_power_state_from(instance_view, 1)

\* outcomes of client.virtual_machines.begin_start
StartOutcomes == {"ok", "conflict", "benign", "error"}

NoVm == [name |-> "none"]

NoPrev == [name |-> "none", full |-> FALSE]

NoData == [has_key |-> FALSE, entries |-> <<>>, before |-> <<>>, removed |-> 0]

\* mutant of cooldown_expired: the window ends one second early
cooldown_expired_at_resume(t, u_retry) == t >= u_retry

\* the test of line 157: the current time has passed the resume timestamp
cooldown_expired(t, u_retry) == t > u_retry

\* mutant of clear_unavailable: the resume timestamp is left in place
clear_unavailable_keeps_time(u_retry) == <<FALSE, u_retry>>

\* lines 158-159: (unavailable_state, unavailable_retry_time) once cleared
clear_unavailable(u_retry) == <<FALSE, 0>>

\* mutant of on_conflict: the starting flag is left as it was
on_conflict_keeps_starting(vm, t, u_timeout) ==
    [vm |-> vm, unavailable_state |-> TRUE, unavailable_retry_time |-> t + u_timeout]

\* the ResourceExistsError handler, lines 167-173
on_conflict(vm, t, u_timeout) ==
    [vm |-> [vm EXCEPT !.starting = FALSE],
     unavailable_state |-> TRUE, unavailable_retry_time |-> t + u_timeout]

\* mutant of on_dropped: the dropped call clears the VM's starting flag
on_dropped_clears_starting(vm, u_state, u_retry) ==
    [vm |-> [vm EXCEPT !.starting = FALSE],
     unavailable_state |-> u_state, unavailable_retry_time |-> u_retry]

\* lines 160-162: the call inside the window logs and returns; what it leaves
on_dropped(vm, u_state, u_retry) ==
    [vm |-> vm, unavailable_state |-> u_state, unavailable_retry_time |-> u_retry]

\* AZURE_VM_RUNNING_MSG in str(ex), line 177: of the outcomes of begin_start
\* that are exceptions other than ResourceExistsError, "benign" is the one
\* whose message holds the text
has_running_msg(outcome) == outcome = "benign"

\* mutant of on_exception: the benign message leaves the starting flag alone
on_exception_benign_keeps_starting(vm, running_msg) ==
    [vm |-> IF running_msg THEN vm ELSE [vm EXCEPT !.starting = FALSE],
     log |-> IF running_msg THEN "warning" ELSE "error"]

\* the handler of any other exception, lines 174-182: the VM it leaves and
\* the level it logs at
on_exception(vm, running_msg) ==
    [vm |-> [vm EXCEPT !.starting = FALSE],
     log |-> IF running_msg THEN "warning" ELSE "error"]

\* the level of the log record a try_start_vm call ends with (lines 161, 164,
\* 169, 179, 182)
log_level(vm, outcome) ==
    CASE outcome = "dropped" -> "warning"
      [] outcome = "ok" -> "info"
      [] outcome = "conflict" -> "error"
      [] OTHER -> on_exception(vm, has_running_msg(outcome)).log

\* try_start_vm(vm) at time t when begin_start ends with `outcome`.
\* Returns the fields the call leaves behind and what it did:
\*   issued   begin_start was called
\*   req      the controller's (unavailable_state, unavailable_retry_time)
\*            when begin_start was called
\*   raised   an exception left the call
try_start_vm(vm, t, outcome, u_state, u_retry, u_timeout) ==
    LET expired == cooldown_expired(t, u_retry)
        dropped == u_state /\ ~expired
        c == IF u_state /\ expired THEN clear_unavailable(u_retry)
                                   ELSE <<u_state, u_retry>>
        k == on_conflict(vm, t, u_timeout)
    IN  IF dropped
        THEN [vm |-> on_dropped(vm, u_state, u_retry).vm,
              unavailable_state |-> on_dropped(vm, u_state, u_retry).unavailable_state,
              unavailable_retry_time |->
                  on_dropped(vm, u_state, u_retry).unavailable_retry_time,
              issued |-> FALSE, outcome |-> "dropped", req |-> <<u_state, u_retry>>,
              raised |-> FALSE]
        ELSE CASE outcome = "ok" ->
                    [vm |-> on_start(vm, t), unavailable_state |-> c[1],
                     unavailable_retry_time |-> c[2],
                     issued |-> TRUE, outcome |-> outcome, req |-> c,
                     raised |-> FALSE]
               [] outcome = "conflict" ->
                    [vm |-> k.vm,
                     unavailable_state |-> k.unavailable_state,
                     unavailable_retry_time |-> k.unavailable_retry_time,
                     issued |-> TRUE, outcome |-> outcome, req |-> c,
                     raised |-> FALSE]
               [] OTHER ->
                    [vm |-> on_exception(vm, has_running_msg(outcome)).vm,
                     unavailable_state |-> c[1],
                     unavailable_retry_time |-> c[2],
                     issued |-> TRUE, outcome |-> outcome, req |-> c,
                     raised |-> FALSE]

\* the history record of one try_start_vm call
CallRecord(name, r) ==
    [vm |-> name, outcome |-> r.outcome, req |-> r.req, raised |-> r.raised,
     log |-> log_level(r.vm, r.outcome)]

NoCall ==
    [vm |-> "none", outcome |-> "none", req |-> <<FALSE, 0>>, raised |-> FALSE,
     log |-> "none"]

\* the history record of a conflict: the VM, and the time of the failure plus
\* the configured length of the window
ConflictRecord(name, t, u_timeout) == [vm |-> name, resume |-> t + u_timeout]

NoConflict == [vm |-> "none", resume |-> -1]

---------------------------------------------------------------------------
(* Spec: a client of one AzureVms controller *)

OsProfiles == [windows_configuration : BOOLEAN, linux_configuration : BOOLEAN]

Linux == [windows_configuration |-> FALSE, linux_configuration |-> TRUE]
Windows == [windows_configuration |-> TRUE, linux_configuration |-> FALSE]
NoOs == [windows_configuration |-> FALSE, linux_configuration |-> FALSE]

\* the fleets explored: a mixed fleet, and one whose second VM exposes
\* no OS configuration
Fleets ==
    {[v \in VmNames |-> IF v = "vm1" THEN Linux ELSE Windows],
     [v \in VmNames |-> IF v = "vm1" THEN Windows ELSE NoOs]}

InitController ==
    /\ now = 0
    /\ ticks = 0
    /\ unavailable_timeout \in Timeouts
    /\ unavailable_retry_time = 0
    /\ unavailable_state = FALSE
    /\ os_profile \in Fleets
    /\ vms = [v \in VmNames |-> NoVm]
    /\ n_calls = 0
    /\ n_started = 0
    /\ last = NoCall
    /\ conflict = NoConflict

\* the remove_orphaned_account variables while no run is under way
OrphanIdle ==
    /\ o_pc = "idle"
    /\ json_file = FALSE
    /\ dry_run = FALSE
    /\ data = NoData
    /\ directory = <<>>
    /\ assignments = <<>>
    /\ items = <<>>
    /\ pos = 0
    /\ role_assignments_by_scope = {}
    /\ known_good_users = {}
    /\ roles_to_remove_by_scope = <<>>
    /\ todo = <<>>
    /\ errors = <<>>
    /\ lookups = <<>>
    /\ fetches = <<>>
    /\ deletes = <<>>
    /\ failures = <<>>
    /\ prints = <<>>

\* the install_extensions variables while no run is under way
InstallIdle ==
    /\ pc = "idle"
    /\ run = 0
    /\ names = <<>>
    /\ queue = <<>>
    /\ vm_local = NoVm
    /\ timeout_start = 0
    /\ boot_at = -1
    /\ pending_view = <<>>
    /\ refetches = 0
    /\ extensions = {}
    /\ cmds = <<>>
    /\ result = "none"
    /\ prev = NoPrev

\* the variables of the run_az_cmd and get_power_state clients while neither runs
PureIdle ==
    /\ az_call = <<>>
    /\ az_outcome = <<>>
    /\ az_calls = 0
    /\ az_runs = 0
    /\ view_statuses = <<>>
    /\ power_state = "none"

Init == InitController /\ InstallIdle /\ OrphanIdle /\ PureIdle

\* the instance views the platform returns to the client of Spec: no status
\* at all, or a running, deallocated or starting machine
FetchedViews ==
    {iv \in InstanceViews :
        \/ iv = <<>>
        \/ Len(iv) = 2 /\ iv[1] # RUNNING /\ iv[2] \in {RUNNING, DEALLOCATED, STARTING}}

\* time passes between two calls
Tick ==
    /\ ticks < MaxTicks
    /\ \E d \in TickSteps : now' = now + d
    /\ ticks' = ticks + 1
    /\ UNCHANGED <<unavailable_timeout, unavailable_state, unavailable_retry_time,
                   os_profile, vms, n_calls, n_started, last, conflict>>

\* get_vm_state(vm_name): the state built from the platform's answer, or the
\* assertion of the constructor failing
vm_state_of(name, instance_view, profile, t) ==
    AzureVmState(name, get_power_state(instance_view),
                 profile.linux_configuration, profile.windows_configuration, t)

GetVmState(v) ==
    /\ AzureVmState_assert(os_profile[v].linux_configuration,
                           os_profile[v].windows_configuration)
    /\ \E iv \in FetchedViews :
          vms' = [vms EXCEPT ![v] = vm_state_of(v, iv, os_profile[v], now)]
    /\ UNCHANGED <<now, ticks, unavailable_timeout, unavailable_state,
                   unavailable_retry_time, os_profile, n_calls, n_started, last, conflict>>

TryStartVm(v) ==
    /\ vms[v] # NoVm
    /\ n_calls < MaxCalls
    /\ \E o \in StartOutcomes :
          LET r == try_start_vm(vms[v], now, o, unavailable_state,
                                unavailable_retry_time, unavailable_timeout)
          IN  /\ vms' = [vms EXCEPT ![v] = r.vm]
              /\ unavailable_state' = r.unavailable_state
              /\ unavailable_retry_time' = r.unavailable_retry_time
              /\ n_calls' = n_calls + 1
              /\ n_started' = IF r.issued THEN n_started + 1 ELSE n_started
              /\ last' = CallRecord(v, r)
              /\ conflict' = IF r.outcome = "conflict"
                             THEN ConflictRecord(v, now, unavailable_timeout)
                             ELSE conflict
    /\ UNCHANGED <<now, ticks, unavailable_timeout, os_profile>>

Next ==
    \/ Tick /\ UNCHANGED <<instVars, orphVars, pureVars>>
    \/ \E v \in VmNames : GetVmState(v) /\ UNCHANGED <<instVars, orphVars, pureVars>>
    \/ \E v \in VmNames : TryStartVm(v) /\ UNCHANGED <<instVars, orphVars, pureVars>>

Spec == Init /\ [][Next]_vars

---------------------------------------------------------------------------
(* az_cmd.py: the command gateway *)

\* what the az process can do: exit 0 with output, exit 0 without, exit non-zero
AzResults == {"json", "empty", "error"}

\* what the az process may print on its standard output
Stdouts == {"", " ", "{}", "[]", "{\"provisioningState\": \"Succeeded\"}", "not json"}

\* what it may print on its standard error
Stderrs == {"", "User does not exist", "WARNING"}

ReturnCodes == {0, 1}

\* subprocess.run(...): the completed process
CompletedProcesses == [returncode : ReturnCodes, stdout : Stdouts, stderr : Stderrs]

\* json.loads on the outputs of the model: the value, or the parser's error
json_loads(text) ==
    CASE text = "{}" -> [ok |-> TRUE, value |-> [type |-> "dict", keys |-> {}]]
      [] text = "[]" -> [ok |-> TRUE, value |-> [type |-> "list", keys |-> {}]]
      [] text = "{\"provisioningState\": \"Succeeded\"}" ->
            [ok |-> TRUE, value |-> [type |-> "dict", keys |-> {"provisioningState"}]]
      [] OTHER -> [ok |-> FALSE, value |-> <<>>]

\* the {} of line 32
EmptyResult == [type |-> "dict", keys |-> {}]

Returned(value, parsed) ==
    [kind |-> "return", value |-> value, parsed |-> parsed, error |-> "", message |-> <<>>]

Raised(error, message) ==
    [kind |-> "raise", value |-> <<>>, parsed |-> FALSE, error |-> error,
     message |-> message]

\* mutant of run_az_cmd_outcome: no output is accepted from every caller
run_az_cmd_outcome_no_data_always_ok(completed, description, no_data_ok) ==
    IF completed.returncode # 0
    THEN Raised("Exception", <<"Error ", description, ": ", completed.stderr>>)
    ELSE IF completed.stdout # ""
         THEN IF json_loads(completed.stdout).ok
              THEN Returned(json_loads(completed.stdout).value, TRUE)
              ELSE Raised("JSONDecodeError", <<>>)
         ELSE Returned(EmptyResult, FALSE)

\* run_az_cmd, lines 23-32, on the completed process `completed`: what it returns
\* or raises; the message of an exception is kept as its parts
run_az_cmd_outcome(completed, description, no_data_ok) ==
    IF completed.returncode # 0
    THEN Raised("Exception", <<"Error ", description, ": ", completed.stderr>>)
    ELSE IF completed.stdout # ""
         THEN IF json_loads(completed.stdout).ok
              THEN Returned(json_loads(completed.stdout).value, TRUE)
              ELSE Raised("JSONDecodeError", <<>>)
         ELSE IF ~no_data_ok
              THEN Raised("Exception", <<"No json data returned: ", completed.stderr>>)
              ELSE Returned(EmptyResult, FALSE)

\* the completed process behind each of AzResults
completed_process(az_result) ==
    [returncode |-> IF az_result = "error" THEN 1 ELSE 0,
     stdout |-> IF az_result = "json" THEN "[]" ELSE "",
     stderr |-> ""]

\* run_az_cmd: "data" (the parsed output), "nothing" ({}), or "raise"
run_az_cmd(az_result, no_data_ok) ==
    LET o == run_az_cmd_outcome(completed_process(az_result), "description", no_data_ok)
    IN  IF o.kind = "raise" THEN "raise"
        ELSE IF o.parsed THEN "data"
        ELSE "nothing"

---------------------------------------------------------------------------
(* install_extensions.py: the four extensions *)

get_monitor_agent_name(vm) ==
    IF vm.is_linux THEN "AzureMonitorLinuxAgent" ELSE "AzureMonitorWindowsAgent"

\* <<name, extension_name>>
get_guest_configuration_extension_name(vm) ==
    IF vm.is_windows THEN <<"ConfigurationforWindows", "AzurePolicyforWindows">>
    ELSE <<"ConfigurationForLinux", "AzurePolicyforLinux">>

get_aad_ssh_extension_name(vm) ==
    IF vm.is_windows THEN "AADLoginForWindows" ELSE "AADSSHLoginForLinux"

get_guest_attestation_extension_publisher(vm) ==
    IF vm.is_windows THEN "Microsoft.Azure.Security.WindowsAttestation"
    ELSE "Microsoft.Azure.Security.LinuxAttestation"

\* the check functions; `exts` is the set of keys of the extension listing
check_monitor_agent(vm, exts) == get_monitor_agent_name(vm) \in exts

\* mutant of check_guest_configuration_extension: the --name of the install
\* command is looked up instead of the extension instance name
check_guest_configuration_by_name(vm, exts) ==
    get_guest_configuration_extension_name(vm)[1] \in exts

check_guest_configuration_extension(vm, exts) ==
    get_guest_configuration_extension_name(vm)[2] \in exts

check_aad_ssh_login(vm, exts) == get_aad_ssh_extension_name(vm) \in exts

check_guest_attestation(vm, exts) == "GuestAttestation" \in exts

\* the "vm extension set" command each install function issues (the --settings
\* payload of the monitor agent is left out)
install_monitor_agent(vm) ==
    [ext |-> "monitor", name |-> get_monitor_agent_name(vm),
     publisher |-> "Microsoft.Azure.Monitor", instance |-> ""]

install_guest_configuration_extension(vm) ==
    [ext |-> "guest_configuration",
     name |-> get_guest_configuration_extension_name(vm)[1],
     publisher |-> "Microsoft.GuestConfiguration",
     instance |-> get_guest_configuration_extension_name(vm)[2]]

install_aad_ssh_login(vm) ==
    [ext |-> "aad_ssh", name |-> get_aad_ssh_extension_name(vm),
     publisher |-> "Microsoft.Azure.ActiveDirectory", instance |-> ""]

install_guest_attestation(vm) ==
    [ext |-> "guest_attestation", name |-> "GuestAttestation",
     publisher |-> get_guest_attestation_extension_publisher(vm), instance |-> ""]

\* process_vm, lines 179-189: the install commands it sets out to issue, in order
installs_wanted(vm, exts) ==
    (IF ~check_monitor_agent(vm, exts) THEN <<install_monitor_agent(vm)>> ELSE <<>>)
    \o (IF ~check_guest_configuration_extension(vm, exts)
        THEN <<install_guest_configuration_extension(vm)>> ELSE <<>>)
    \o (IF ~check_aad_ssh_login(vm, exts) THEN <<install_aad_ssh_login(vm)>> ELSE <<>>)
    \o (IF ~check_guest_attestation(vm, exts)
        THEN <<install_guest_attestation(vm)>> ELSE <<>>)

\* the first command of `results` that raises (no_data_ok is true), or 0
RECURSIVE first_raise(_, _)
first_raise(results, i) ==
    IF i > Len(results) THEN 0
    ELSE IF run_az_cmd(results[i], TRUE) = "raise" THEN i
    ELSE first_raise(results, i + 1)

\* process_vm from line 178 on: list the extensions, then install what is
\* missing; an exception of run_az_cmd leaves the function at once.
\*   list_result       what az did for the list command
\*   listing           the keys of the listing when it did return one
\*   install_results   what az does for each install command
reconcile_extensions(vm, list_result, listing, install_results) ==
    IF run_az_cmd(list_result, FALSE) = "raise"
    THEN [extensions |-> {}, listed |-> FALSE, installs |-> <<>>, raised |-> TRUE]
    ELSE LET wanted == installs_wanted(vm, listing)
             f == first_raise(install_results, 1)
         IN  [extensions |-> listing, listed |-> TRUE,
              installs |-> IF f = 0 THEN wanted ELSE SubSeq(wanted, 1, f),
              raised |-> f # 0]

---------------------------------------------------------------------------
(* install_extensions.py: Timeout and the wait loop of process_vm *)

TIMEOUT_SECONDS == 600
INTERVAL == 15

\* mutant of timeout_step: the timeout is tested with <=
timeout_step_le(t, start, timeout_seconds) == t - start <= timeout_seconds

\* Timeout.step: TRUE (after sleeping for the interval) or FALSE
timeout_step(t, start, timeout_seconds) == t - start < timeout_seconds

---------------------------------------------------------------------------
(* SpecInstall: runs of install_extensions *)

MaxRuns == 2

\* the order in which the platform lists the fleet
FleetOrder == <<"vm1", "vm2">>

\* the names given on the command line ("vm9" is no VM of the fleet)
NameLists == {<<>>, <<"vm1">>, <<"vm9", "vm2">>, <<"vm2", "vm1", "vm2">>}

\* what the platform reports for a VM at discovery
DiscoveryViews ==
    {<<"ProvisioningState/succeeded", RUNNING>>,
     <<"ProvisioningState/succeeded", DEALLOCATED>>,
     <<>>}

\* what the platform reports for a VM that is not running yet
PendingViews == {<<"ProvisioningState/succeeded", STARTING>>, <<>>}

\* how long after the entry of process_vm the VM turns running
BootDelays == {INTERVAL, TIMEOUT_SECONDS}

\* the extension names of the catalogue
RequiredLinux ==
    {"AzureMonitorLinuxAgent", "AzurePolicyforLinux", "AADSSHLoginForLinux",
     "GuestAttestation"}
RequiredWindows ==
    {"AzureMonitorWindowsAgent", "AzurePolicyforWindows", "AADLoginForWindows",
     "GuestAttestation"}

Required(is_linux) == IF is_linux THEN RequiredLinux ELSE RequiredWindows

\* the listings the platform returns for a VM: any part of the catalogue of
\* its OS, the catalogue of the other OS, and both
Listings(is_linux) ==
    (SUBSET Required(is_linux))
        \cup {Required(~is_linux), RequiredLinux \cup RequiredWindows}

\* what az does for k install commands: all succeed, or exactly one fails
InstallResults(k) ==
    {[i \in 1..k |-> IF i = f THEN "error" ELSE ok] :
        f \in 0..k, ok \in {"json", "empty"}}

\* install_extensions, lines 230-237: the names of the VMs to process, in order
RECURSIVE found_names(_, _, _)
found_names(nms, known, acc) ==
    IF nms = <<>> THEN acc
    ELSE LET n == Head(nms)
         IN  found_names(Tail(nms), known,
                IF n \in known /\ \A i \in 1..Len(acc) : acc[i] # n
                THEN Append(acc, n) ELSE acc)

selected_names(nms, listed) ==
    IF nms # <<>>
    THEN found_names(nms, {listed[i] : i \in 1..Len(listed)}, <<>>)
    ELSE listed

InitInstall ==
    /\ now = 0
    /\ ticks = 0
    /\ unavailable_timeout = DEFAULT_UNAVAILABLE_TIMEOUT
    /\ unavailable_retry_time = 0
    /\ unavailable_state = FALSE
    /\ os_profile \in Fleets
    /\ vms = [v \in VmNames |-> NoVm]
    /\ n_calls = 0
    /\ n_started = 0
    /\ last = NoCall
    /\ conflict = NoConflict
    /\ pc = "start"
    /\ run = 1
    /\ names \in NameLists
    /\ queue = <<>>
    /\ vm_local = NoVm
    /\ timeout_start = 0
    /\ boot_at = -1
    /\ pending_view = <<>>
    /\ refetches = 0
    /\ extensions = {}
    /\ cmds = <<>>
    /\ result = "none"
    /\ prev = NoPrev
    /\ OrphanIdle
    /\ PureIdle

\* install_extensions, lines 226-237: the controller is built, list_vms
\* discovers the fleet and the VMs asked for are selected
ListVms ==
    /\ pc = "start"
    /\ IF \A v \in VmNames : AzureVmState_assert(os_profile[v].linux_configuration,
                                                 os_profile[v].windows_configuration)
       THEN \E views \in [VmNames -> DiscoveryViews] :
               LET sel == selected_names(names, FleetOrder)
               IN  queue' = [i \in 1..Len(sel) |->
                               vm_state_of(sel[i], views[sel[i]], os_profile[sel[i]], now)]
            /\ pc' = "process"
       ELSE /\ pc' = "aborted"
            /\ UNCHANGED queue
    /\ UNCHANGED <<now, ticks, unavailable_timeout, unavailable_state,
                   unavailable_retry_time, os_profile, vms, n_calls, n_started, last,
                   conflict, run, names, vm_local, timeout_start, boot_at,
                   pending_view, refetches, extensions, cmds, result, prev>>

\* history: the name of the VM of the latest process_vm call, and whether its
\* listing held the whole catalogue of the VM's OS
summary(v, exts, res, old) ==
    IF res = "none" THEN old
    ELSE [name |-> v.name, full |-> res = "ok" /\ Required(v.is_linux) \subseteq exts]

\* mutant of needs_start: the start is requested whatever the state
needs_start_always(vm) == TRUE

\* process_vm, line 171: the VM is to be started and waited for
needs_start(vm) == ~is_running(vm)

\* process_vm, lines 170-174, for the next VM of the loop of line 239
ProcessVmEnter ==
    /\ pc = "process"
    /\ queue # <<>>
    /\ LET v == Head(queue)
       IN  /\ prev' = summary(vm_local, extensions, result, prev)
           /\ extensions' = {}
           /\ cmds' = <<>>
           /\ result' = "none"
           /\ refetches' = 0
           /\ IF ~needs_start(v)
              THEN /\ vm_local' = v
                   /\ pc' = "extensions"
                   /\ UNCHANGED <<unavailable_state, unavailable_retry_time, n_calls,
                                  n_started, last, conflict, timeout_start, boot_at,
                                  pending_view>>
              ELSE /\ \E o \in StartOutcomes :
                        LET r == try_start_vm(v, now, o, unavailable_state,
                                              unavailable_retry_time, unavailable_timeout)
                        IN  /\ vm_local' = r.vm
                            /\ unavailable_state' = r.unavailable_state
                            /\ unavailable_retry_time' = r.unavailable_retry_time
                            /\ n_calls' = n_calls + 1
                            /\ n_started' = IF r.issued THEN n_started + 1 ELSE n_started
                            /\ last' = CallRecord(v.name, r)
                            /\ conflict' = IF r.outcome = "conflict"
                                           THEN ConflictRecord(v.name, now, unavailable_timeout)
                                           ELSE conflict
                   /\ timeout_start' = now
                   /\ boot_at' \in {now + d : d \in BootDelays} \cup {-1}
                   /\ pending_view' \in PendingViews
                   /\ pc' = "wait"
    /\ UNCHANGED <<now, ticks, unavailable_timeout, os_profile, vms, run, names, queue>>

\* what the platform reports for the VM at time t
platform_view(t) ==
    IF boot_at >= 0 /\ t >= boot_at
    THEN <<"ProvisioningState/succeeded", RUNNING>>
    ELSE pending_view

\* process_vm, lines 175-176: one evaluation of the loop condition and, when
\* it holds, the sleep and the re-fetch of the body
WaitStep ==
    /\ pc = "wait"
    /\ IF ~is_running(vm_local) /\ timeout_step(now, timeout_start, TIMEOUT_SECONDS)
       THEN /\ now' = now + INTERVAL
            /\ vm_local' = vm_state_of(vm_local.name, platform_view(now + INTERVAL),
                                       os_profile[vm_local.name], now + INTERVAL)
            /\ refetches' = refetches + 1
            /\ UNCHANGED pc
       ELSE /\ pc' = "extensions"
            /\ UNCHANGED <<now, vm_local, refetches>>
    /\ UNCHANGED <<ticks, unavailable_timeout, unavailable_state,
                   unavailable_retry_time, os_profile, vms, n_calls, n_started,
                   last, conflict, run, names, queue, timeout_start, boot_at,
                   pending_view, extensions, cmds, result, prev>>

\* the commands a process_vm issued: the list command, then the installs
commands_of(r) ==
    <<[ext |-> "list", name |-> "", publisher |-> "", instance |-> ""]>> \o r.installs

\* process_vm, lines 178-189, and its return to the loop of install_extensions
\* (line 239), which nothing catches an exception in
Reconcile ==
    /\ pc = "extensions"
    /\ \E lr \in AzResults, listing \in Listings(vm_local.is_linux) :
          \E irs \in InstallResults(Len(installs_wanted(vm_local, listing))) :
             LET r == reconcile_extensions(vm_local, lr, listing, irs)
             IN  /\ extensions' = r.extensions
                 /\ cmds' = commands_of(r)
                 /\ result' = IF r.raised THEN "raised" ELSE "ok"
                 /\ pc' = IF r.raised THEN "aborted" ELSE "process"
                 /\ queue' = IF r.raised THEN queue ELSE Tail(queue)
    /\ UNCHANGED <<ctlVars, run, names, vm_local, timeout_start, boot_at,
                   pending_view, refetches, prev>>

\* install_extensions returns: the loop of line 239 has no VM left
Finish ==
    /\ pc = "process"
    /\ queue = <<>>
    /\ pc' = "done"
    /\ UNCHANGED <<ctlVars, run, names, queue, vm_local, timeout_start, boot_at,
                   pending_view, refetches, extensions, cmds, result, prev>>

\* the command is run again with the same arguments: a new process, and so a
\* new controller and a new clock
RunAgain ==
    /\ pc \in {"done", "aborted"}
    /\ run < MaxRuns
    /\ run' = run + 1
    /\ pc' = "start"
    /\ now' = 0
    /\ unavailable_retry_time' = 0
    /\ unavailable_state' = FALSE
    /\ vms' = [v \in VmNames |-> NoVm]
    /\ n_calls' = 0
    /\ n_started' = 0
    /\ last' = NoCall
    /\ conflict' = NoConflict
    /\ queue' = <<>>
    /\ prev' = summary(vm_local, extensions, result, prev)
    /\ vm_local' = NoVm
    /\ timeout_start' = 0
    /\ boot_at' = -1
    /\ pending_view' = <<>>
    /\ refetches' = 0
    /\ extensions' = {}
    /\ cmds' = <<>>
    /\ result' = "none"
    /\ UNCHANGED <<ticks, unavailable_timeout, os_profile, names>>

NextInstall ==
    \/ ListVms /\ UNCHANGED <<orphVars, pureVars>>
    \/ ProcessVmEnter /\ UNCHANGED <<orphVars, pureVars>>
    \/ WaitStep /\ UNCHANGED <<orphVars, pureVars>>
    \/ Reconcile /\ UNCHANGED <<orphVars, pureVars>>
    \/ Finish /\ UNCHANGED <<orphVars, pureVars>>
    \/ RunAgain /\ UNCHANGED <<orphVars, pureVars>>

SpecInstall == InitInstall /\ [][NextInstall]_vars

\* the run is single-threaded and every step of it is taken in turn; the
\* whole fleet, or its first VM alone, is asked for
InitInstallFair == InitInstall /\ names \in {<<>>, <<"vm1">>}

SpecInstallFair == InitInstallFair /\ [][NextInstall]_vars /\ WF_vars(NextInstall)

---------------------------------------------------------------------------
(* remove_orphaned_accounts.py *)

MaxAssignments == 3
MaxEntries == 2

Principals == {"p1", "p2"}
Scopes == {"s1", "s2"}

\* the role assignments the subscription may hold, in the order the platform
\* lists them; the id of an assignment is its place in this list
AssignmentPool ==
    <<[id |-> 1, principalId |-> "p1", principalType |-> "User", scope |-> "s1"],
      [id |-> 2, principalId |-> "p1", principalType |-> "User", scope |-> "s2"],
      [id |-> 3, principalId |-> "p2", principalType |-> "User", scope |-> "s1"],
      [id |-> 4, principalId |-> "p2", principalType |-> "ServicePrincipal",
       scope |-> "s2"],
      [id |-> 5, principalId |-> "p1", principalType |-> "User", scope |-> "s1"]>>

RoleIds == 1..Len(AssignmentPool)
Pairs == Scopes \X RoleIds

\* the live lists explored: at most MaxAssignments assignments of the pool
LiveLists ==
    {SelectSeq(AssignmentPool, LAMBDA a : a.id \in S) :
        S \in {T \in SUBSET RoleIds : Cardinality(T) <= MaxAssignments}}

\* the entries a report may hold, and the reports explored
EntryPool ==
    {[UserName |-> "p1", Scope |-> "s1"], [UserName |-> "p1", Scope |-> "s2"],
     [UserName |-> "p2", Scope |-> "s1"]}

Reports == UNION {[1..n -> EntryPool] : n \in 0..MaxEntries}

\* what "az ad user show" does for a principal: prints the user; exits with
\* status 0 and no output; exits non-zero with "does not exist" in its error
\* text; exits non-zero with another error text
LookupAnswers == {"user", "empty", "does not exist", "failure"}

az_result_of(answer) ==
    IF answer \in {"user", "empty"} THEN IF answer = "user" THEN "json" ELSE "empty"
    ELSE "error"

\* "does not exist" in str(e), for the exception of a failed lookup
msg_has_does_not_exist(answer) == answer = "does not exist"

\* the platform's answer to "role assignment list --scope"
scope_listing(live, scope) == SelectSeq(live, LAMBDA a : a.scope = scope)

get_unique_users(entries) == {entries[i].UserName : i \in 1..Len(entries)}

\* mutant of keeps_on_lookup: an unexpected lookup error leaves the principal
\* in the report
keeps_on_any_error(answer) == run_az_cmd(az_result_of(answer), FALSE) = "raise"

\* check_orphans, lines 32-46: the principal id is not put in to_remove
keeps_on_lookup(answer) ==
    /\ run_az_cmd(az_result_of(answer), FALSE) = "raise"
    /\ msg_has_does_not_exist(answer)

\* mutant of without_principal: only the first entry of the principal goes
without_first_of_principal(entries, principal_id) ==
    LET hits == {i \in 1..Len(entries) : entries[i].UserName = principal_id}
    IN  IF hits = {} THEN entries
        ELSE LET first == CHOOSE i \in hits : \A j \in hits : i <= j
             IN  SubSeq(entries, 1, first - 1) \o SubSeq(entries, first + 1, Len(entries))

\* lines 50-52: the entries that do not name the principal
without_principal(entries, principal_id) ==
    SelectSeq(entries, LAMBDA e : e.UserName # principal_id)

\* lines 49-52: the loop over to_remove; the filters commute, so the order in
\* which the set is walked does not show in the result
RECURSIVE without_principals(_, _)
without_principals(entries, to_remove) ==
    IF to_remove = {} THEN entries
    ELSE LET principal_id == CHOOSE q \in to_remove : TRUE
         IN  without_principals(without_principal(entries, principal_id),
                                to_remove \ {principal_id})

\* check_orphans: the report entries it leaves
check_orphans(entries, dir) ==
    LET to_remove == {q \in get_unique_users(entries) : ~keeps_on_lookup(dir[q])}
    IN  without_principals(entries, to_remove)

\* lines 48, 58-59: removed = len(before) - len(after)
removed_count(before, after) == Len(before) - Len(after)

\* mutant of after_load: an emptied report still goes to the collection loop
after_load_ignores_empty(has_key, left) == IF ~has_key THEN "done" ELSE "collect"

\* remove_orphaned_account, lines 108-116: the function returns when the
\* report has no "Stale identities" key or check_orphans left no entry
after_load(has_key, left) ==
    IF ~has_key \/ left = <<>> THEN "done" ELSE "collect"

\* mutant of is_user: the principal type is not looked at
is_user_any_type(item) == TRUE

\* find_orphaned_roles, lines 71-73: the assignment is one of a user
is_user(item) == item.principalType = "User"

\* mutant of already_checked: the set of checked principals is not consulted
already_checked_never(known, principal_id) == FALSE

\* find_orphaned_roles, lines 76-77: the principal id was looked up before
already_checked(known, principal_id) == principal_id \in known

\* line 78: the principal id is recorded before its lookup, whatever it gives
checked_after(known, principal_id) == known \cup {principal_id}

\* mutant of is_cached: the per-scope cache is not consulted
is_cached_never(cache, scope) == FALSE

\* remove_orphaned_account, line 130: the scope's list was fetched before
is_cached(cache, scope) == scope \in cache

\* find_orphaned_roles, lines 79-96: the lookup marks the assignment orphaned
orphaned_on_lookup(answer) ==
    /\ run_az_cmd(az_result_of(answer), FALSE) = "raise"
    /\ msg_has_does_not_exist(answer)

\* roles_to_remove_by_scope[scope].add(role_id), the dict kept in insertion order
RECURSIVE add_role(_, _, _)
add_role(by_scope, scope, role_id) ==
    IF by_scope = <<>> THEN <<[scope |-> scope, roles |-> {role_id}]>>
    ELSE IF Head(by_scope).scope = scope
         THEN <<[scope |-> scope, roles |-> Head(by_scope).roles \cup {role_id}]>>
                 \o Tail(by_scope)
         ELSE <<Head(by_scope)>> \o add_role(Tail(by_scope), scope, role_id)

\* mutant of matches: every assignment of the listing is taken
matches_any(item, principal_id) == TRUE

\* line 137: the assignment is one of the principal
matches(item, principal_id) == item.principalId = principal_id

\* lines 135-140: the ids of `all_roles` whose principalId matches
RECURSIVE add_matching(_, _, _, _)
add_matching(by_scope, all_roles, principal_id, scope) ==
    IF all_roles = <<>> THEN by_scope
    ELSE add_matching(
            IF matches(Head(all_roles), principal_id)
            THEN add_role(by_scope, scope, Head(all_roles).id) ELSE by_scope,
            Tail(all_roles), principal_id, scope)

\* the (scope, role_id) pairs of a removal set
pairs_of(by_scope) ==
    UNION {{<<by_scope[i].scope, r>> : r \in by_scope[i].roles} : i \in 1..Len(by_scope)}

Zero(S) == [x \in S |-> 0]
Bump(f, x) == [f EXCEPT ![x] = @ + 1]

\* mutant of delete_command_issued: dry_run is not looked at
delete_command_always(dry) == TRUE

\* lines 159-163: the delete command is issued for a role
delete_command_issued(dry) == ~dry

\* mutant of after_delete: a failed delete ends the loops
after_delete_stop_on_failure(td, role_id, failed) ==
    IF failed THEN <<>>
    ELSE IF Head(td).roles = {role_id} THEN Tail(td)
    ELSE <<[scope |-> Head(td).scope, roles |-> Head(td).roles \ {role_id}]>> \o Tail(td)

\* lines 152-171: what the two loops have still to visit after one role
after_delete(td, role_id, failed) ==
    IF Head(td).roles = {role_id} THEN Tail(td)
    ELSE <<[scope |-> Head(td).scope, roles |-> Head(td).roles \ {role_id}]>> \o Tail(td)

---------------------------------------------------------------------------
(* SpecOrphan: one run of remove_orphaned_account *)

InitOrphan ==
    /\ now = 0
    /\ ticks = 0
    /\ unavailable_timeout = DEFAULT_UNAVAILABLE_TIMEOUT
    /\ unavailable_retry_time = 0
    /\ unavailable_state = FALSE
    /\ os_profile \in {[v \in VmNames |-> Linux]}
    /\ vms = [v \in VmNames |-> NoVm]
    /\ n_calls = 0
    /\ n_started = 0
    /\ last = NoCall
    /\ conflict = NoConflict
    /\ InstallIdle
    /\ PureIdle
    /\ o_pc = "start"
    /\ json_file \in BOOLEAN
    /\ dry_run \in BOOLEAN
    /\ IF json_file
       THEN data \in {NoData} \cup {[NoData EXCEPT !.has_key = TRUE, !.entries = e] : e \in Reports}
       ELSE data = NoData
    /\ directory \in [Principals -> LookupAnswers]
    /\ assignments \in LiveLists
    /\ items = <<>>
    /\ pos = 0
    /\ role_assignments_by_scope = {}
    /\ known_good_users = {}
    /\ roles_to_remove_by_scope = <<>>
    /\ todo = <<>>
    /\ errors = Zero(Pairs)
    /\ lookups = Zero(Principals)
    /\ fetches = Zero(Scopes \cup {"--all"})
    /\ deletes = Zero(Pairs)
    /\ failures = Zero(Pairs)
    /\ prints = Zero(Pairs)

\* remove_orphaned_account, lines 104-116: the report is loaded and filtered
\* by check_orphans
LoadReport ==
    /\ o_pc = "start"
    /\ json_file
    /\ IF ~data.has_key
       THEN /\ o_pc' = after_load(FALSE, <<>>)
            /\ UNCHANGED <<data, lookups>>
       ELSE LET left == check_orphans(data.entries, directory)
            IN  /\ data' = [data EXCEPT !.entries = left, !.before = data.entries,
                                        !.removed = removed_count(data.entries, left)]
                /\ lookups' = [q \in Principals |->
                                  IF q \in get_unique_users(data.entries)
                                  THEN lookups[q] + 1 ELSE lookups[q]]
                /\ o_pc' = after_load(TRUE, left)
    /\ pos' = 1
    /\ UNCHANGED <<json_file, dry_run, directory, assignments, items,
                   role_assignments_by_scope, known_good_users,
                   roles_to_remove_by_scope, todo, errors, fetches, deletes,
                   failures, prints>>

\* lines 127-140: one round of the loop over the stale identities
CollectStep ==
    /\ o_pc = "collect"
    /\ LET identity == data.entries[pos]
           principal_id == identity.UserName
           scope == identity.Scope
           fresh == ~is_cached(role_assignments_by_scope, scope)
       IN  \E az \in IF fresh THEN AzResults ELSE {"json"} :
              /\ fetches' = IF fresh THEN Bump(fetches, scope) ELSE fetches
              /\ IF fresh /\ run_az_cmd(az, FALSE) = "raise"
                 THEN /\ o_pc' = "aborted"
                      /\ UNCHANGED <<pos, role_assignments_by_scope,
                                     roles_to_remove_by_scope, todo>>
                 ELSE /\ role_assignments_by_scope' =
                            role_assignments_by_scope \cup {scope}
                      /\ roles_to_remove_by_scope' =
                            add_matching(roles_to_remove_by_scope,
                                         scope_listing(assignments, scope),
                                         principal_id, scope)
                      /\ pos' = pos + 1
                      /\ o_pc' = IF pos = Len(data.entries) THEN "delete" ELSE "collect"
                      /\ todo' = IF pos = Len(data.entries)
                                 THEN roles_to_remove_by_scope' ELSE todo
    /\ UNCHANGED <<json_file, dry_run, data, directory, assignments, items,
                   known_good_users, errors, lookups, deletes, failures, prints>>

\* find_orphaned_roles, line 67: all the role assignments are listed
ListAll ==
    /\ o_pc = "start"
    /\ ~json_file
    /\ fetches' = Bump(fetches, "--all")
    /\ \E az \in AzResults :
          IF run_az_cmd(az, FALSE) = "raise"
          THEN /\ o_pc' = "aborted"
               /\ UNCHANGED <<items, pos>>
          ELSE /\ items' = assignments
               /\ pos' = 1
               /\ o_pc' = IF assignments = <<>> THEN "delete" ELSE "find"
    /\ UNCHANGED <<json_file, dry_run, data, directory, assignments,
                   role_assignments_by_scope, known_good_users,
                   roles_to_remove_by_scope, todo, errors, lookups, deletes,
                   failures, prints>>

\* find_orphaned_roles, lines 70-96: one round of the loop over the list
FindStep ==
    /\ o_pc = "find"
    /\ LET item == items[pos]
           principal_id == item.principalId
           skip == ~is_user(item) \/ already_checked(known_good_users, principal_id)
           found == IF ~skip /\ orphaned_on_lookup(directory[principal_id])
                    THEN add_role(roles_to_remove_by_scope, item.scope, item.id)
                    ELSE roles_to_remove_by_scope
       IN  /\ known_good_users' =
                 IF skip THEN known_good_users
                 ELSE checked_after(known_good_users, principal_id)
           /\ lookups' = IF skip THEN lookups ELSE Bump(lookups, principal_id)
           /\ roles_to_remove_by_scope' = found
           /\ pos' = pos + 1
           /\ o_pc' = IF pos = Len(items) THEN "delete" ELSE "find"
           /\ todo' = IF pos = Len(items) THEN found ELSE todo
    /\ UNCHANGED <<json_file, dry_run, data, directory, assignments, items,
                   role_assignments_by_scope, errors, fetches, deletes, failures,
                   prints>>

\* lines 152-171: one role of the deletion loops
DeleteStep ==
    /\ o_pc = "delete"
    /\ todo # <<>>
    /\ \E role_id \in Head(todo).roles, az \in AzResults :
          LET pair == <<Head(todo).scope, role_id>>
              issued == delete_command_issued(dry_run)
              failed == issued /\ run_az_cmd(az, TRUE) = "raise"
          IN  /\ deletes' = IF issued THEN Bump(deletes, pair) ELSE deletes
              /\ prints' = IF dry_run THEN Bump(prints, pair) ELSE prints
              /\ failures' = IF failed THEN Bump(failures, pair) ELSE failures
              /\ errors' = IF failed THEN Bump(errors, pair) ELSE errors
              /\ todo' = after_delete(todo, role_id, failed)
    /\ UNCHANGED <<o_pc, json_file, dry_run, data, directory, assignments, items,
                   pos, role_assignments_by_scope, known_good_users,
                   roles_to_remove_by_scope, lookups, fetches>>

\* lines 144-146 and 173-174: nothing (more) to remove, the function returns
Return ==
    /\ o_pc = "delete"
    /\ todo = <<>>
    /\ o_pc' = "done"
    /\ UNCHANGED <<json_file, dry_run, data, directory, assignments, items, pos,
                   role_assignments_by_scope, known_good_users,
                   roles_to_remove_by_scope, todo, errors, lookups, fetches,
                   deletes, failures, prints>>

NextOrphan ==
    \/ LoadReport /\ UNCHANGED <<ctlVars, instVars, pureVars>>
    \/ CollectStep /\ UNCHANGED <<ctlVars, instVars, pureVars>>
    \/ ListAll /\ UNCHANGED <<ctlVars, instVars, pureVars>>
    \/ FindStep /\ UNCHANGED <<ctlVars, instVars, pureVars>>
    \/ DeleteStep /\ UNCHANGED <<ctlVars, instVars, pureVars>>
    \/ Return /\ UNCHANGED <<ctlVars, instVars, pureVars>>

SpecOrphan == InitOrphan /\ [][NextOrphan]_vars

---------------------------------------------------------------------------
(* SpecVm: a client that fetches AzureVmState objects and calls their methods *)

BothOs == [windows_configuration |-> TRUE, linux_configuration |-> TRUE]

\* the fleets explored: those of Spec, and one whose first VM exposes both
\* OS configurations
VmFleets ==
    Fleets \cup {[v \in VmNames |-> IF v = "vm1" THEN BothOs ELSE Linux]}

\* the history record of one operation of the client
OpRecord(op, name, raised) == [op |-> op, vm |-> name, raised |-> raised]

NoOp == OpRecord("none", "none", FALSE)

InitVm ==
    /\ now = 0
    /\ ticks = 0
    /\ unavailable_timeout = DEFAULT_UNAVAILABLE_TIMEOUT
    /\ unavailable_retry_time = 0
    /\ unavailable_state = FALSE
    /\ os_profile \in VmFleets
    /\ vms = [v \in VmNames |-> NoVm]
    /\ n_calls = 0
    /\ n_started = 0
    /\ last = NoOp
    /\ conflict = NoConflict
    /\ InstallIdle
    /\ OrphanIdle
    /\ PureIdle

\* get_vm_state(vm_name), lines 130-142: the object is built, or the
\* assertion of its constructor fails and the caller gets none
FetchVm(v) ==
    /\ \E iv \in InstanceViews :
          IF AzureVmState_assert(os_profile[v].linux_configuration,
                                 os_profile[v].windows_configuration)
          THEN /\ vms' = [vms EXCEPT ![v] = vm_state_of(v, iv, os_profile[v], now)]
               /\ last' = OpRecord("get_vm_state", v, FALSE)
          ELSE /\ vms' = vms
               /\ last' = OpRecord("get_vm_state", v, TRUE)
    /\ UNCHANGED <<now, ticks, unavailable_timeout, unavailable_state,
                   unavailable_retry_time, os_profile, n_calls, n_started, conflict>>

\* list_vms(), lines 144-152: get_vm_state for every VM of the resource
\* group; an exception of one of them leaves the caller without a result
ListVmStates ==
    /\ \E ivs \in [VmNames -> FetchedViews] :
          IF \A v \in VmNames :
                AzureVmState_assert(os_profile[v].linux_configuration,
                                    os_profile[v].windows_configuration)
          THEN /\ vms' = [v \in VmNames |-> vm_state_of(v, ivs[v], os_profile[v], now)]
               /\ last' = OpRecord("list_vms", "all", FALSE)
          ELSE /\ vms' = vms
               /\ last' = OpRecord("list_vms", "all", TRUE)
    /\ UNCHANGED <<now, ticks, unavailable_timeout, unavailable_state,
                   unavailable_retry_time, os_profile, n_calls, n_started, conflict>>

\* vm.on_start()
OnStart(v) ==
    /\ vms[v] # NoVm
    /\ vms' = [vms EXCEPT ![v] = on_start(vms[v], now)]
    /\ last' = OpRecord("on_start", v, FALSE)
    /\ UNCHANGED <<now, ticks, unavailable_timeout, unavailable_state,
                   unavailable_retry_time, os_profile, n_calls, n_started, conflict>>

\* vm.on_deallocate()
OnDeallocate(v) ==
    /\ vms[v] # NoVm
    /\ vms' = [vms EXCEPT ![v] = on_deallocate(vms[v], now)]
    /\ last' = OpRecord("on_deallocate", v, FALSE)
    /\ UNCHANGED <<now, ticks, unavailable_timeout, unavailable_state,
                   unavailable_retry_time, os_profile, n_calls, n_started, conflict>>

\* the history record of one try_start_vm call of the client
CallOp(name, r) ==
    [op |-> "try_start_vm", vm |-> name, raised |-> r.raised,
     outcome |-> r.outcome, issued |-> r.issued]

\* monitor.try_start_vm(vm) on an object the client holds
StartVm(v) ==
    /\ vms[v] # NoVm
    /\ \E o \in StartOutcomes :
          LET r == try_start_vm(vms[v], now, o, unavailable_state,
                                unavailable_retry_time, unavailable_timeout)
          IN  /\ vms' = [vms EXCEPT ![v] = r.vm]
              /\ unavailable_state' = r.unavailable_state
              /\ unavailable_retry_time' = r.unavailable_retry_time
              /\ last' = CallOp(v, r)
    /\ UNCHANGED <<now, ticks, unavailable_timeout, os_profile, n_calls, n_started,
                   conflict>>

NextVm ==
    \/ Tick /\ UNCHANGED <<instVars, orphVars, pureVars>>
    \/ \E v \in VmNames : FetchVm(v) /\ UNCHANGED <<instVars, orphVars, pureVars>>
    \/ ListVmStates /\ UNCHANGED <<instVars, orphVars, pureVars>>
    \/ \E v \in VmNames : OnStart(v) /\ UNCHANGED <<instVars, orphVars, pureVars>>
    \/ \E v \in VmNames : OnDeallocate(v) /\ UNCHANGED <<instVars, orphVars, pureVars>>
    \/ \E v \in VmNames : StartVm(v) /\ UNCHANGED <<instVars, orphVars, pureVars>>

SpecVm == InitVm /\ [][NextVm]_vars

---------------------------------------------------------------------------
(* SpecAz: a client that calls run_az_cmd *)

MaxCmds == 2

\* the controller's variables while no controller is in use
ControllerIdle ==
    /\ now = 0
    /\ ticks = 0
    /\ unavailable_timeout = DEFAULT_UNAVAILABLE_TIMEOUT
    /\ unavailable_retry_time = 0
    /\ unavailable_state = FALSE
    /\ os_profile = [v \in VmNames |-> Linux]
    /\ vms = [v \in VmNames |-> NoVm]
    /\ n_calls = 0
    /\ n_started = 0
    /\ last = NoCall
    /\ conflict = NoConflict

InitAz == ControllerIdle /\ InstallIdle /\ OrphanIdle /\ PureIdle

\* one call of run_az_cmd(cmd, description, no_data_ok): line 22 runs the
\* process once, lines 23-32 turn what it did into the outcome
RunAzCmd ==
    /\ az_calls < MaxCmds
    /\ \E completed \in CompletedProcesses, no_data_ok \in BOOLEAN :
          /\ az_call' = [result |-> completed, no_data_ok |-> no_data_ok]
          /\ az_outcome' = run_az_cmd_outcome(completed, "description", no_data_ok)
    /\ az_calls' = az_calls + 1
    /\ az_runs' = az_runs + 1
    /\ UNCHANGED <<view_statuses, power_state>>

NextAz == RunAzCmd /\ UNCHANGED <<ctlVars, instVars, orphVars>>

SpecAz == InitAz /\ [][NextAz]_vars

---------------------------------------------------------------------------
(* SpecPower: get_power_state applied to an instance view *)

MaxStatuses == 3

\* the status lists explored: up to MaxStatuses codes, in every order
StatusLists == UNION {[1..n -> StatusCodes] : n \in 0..MaxStatuses}

InitPower ==
    /\ ControllerIdle
    /\ InstallIdle
    /\ OrphanIdle
    /\ az_call = <<>>
    /\ az_outcome = <<>>
    /\ az_calls = 0
    /\ az_runs = 0
    /\ view_statuses \in StatusLists
    /\ power_state = "none"

\* power_status = self.get_power_state(instance_view), line 135
GetPowerState ==
    /\ power_state = "none"
    /\ power_state' = get_power_state(view_statuses)
    /\ UNCHANGED <<az_call, az_outcome, az_calls, az_runs, view_statuses>>

NextPower == GetPowerState /\ UNCHANGED <<ctlVars, instVars, orphVars>>

SpecPower == InitPower /\ [][NextPower]_vars

---------------------------------------------------------------------------
(* Claims about the controller, checked under Spec *)

\* a step that is one try_start_vm call
IsCall == n_calls' = n_calls + 1

\* C1: after a try_start_vm call failed with a conflict, a further call made
\* while the current time has not passed the resume timestamp of that conflict
\* issues no start request, for whichever VM it is made: the conflict's own
\* attempt stays the only one, and the call changes nothing.
C1_NoStartInsideWindow ==
    [][(IsCall /\ conflict.vm # "none" /\ now <= conflict.resume)
          => /\ n_started' = n_started
             /\ last'.outcome = "dropped"
             /\ vms' = vms
             /\ unavailable_state' = unavailable_state
             /\ unavailable_retry_time' = unavailable_retry_time]_vars

\* a call for another VM was dropped exactly at the resume timestamp of the
\* default window, the conflict's attempt being the only one
C1_Witness ==
    /\ conflict.vm # "none"
    /\ last.outcome = "dropped"
    /\ last.vm # conflict.vm
    /\ unavailable_timeout = DEFAULT_UNAVAILABLE_TIMEOUT
    /\ now = conflict.resume
    /\ n_calls = 2
    /\ n_started = 1

\* C2: while unavailable_state is set, a try_start_vm call is dropped unless
\* the current time is strictly past unavailable_retry_time; the first call
\* past it clears the suppression (flag false, timestamp 0) before it issues
\* its start request, in the same call, and the suppression stays cleared
\* unless that request conflicts again.
C2_SuppressedUntilResume ==
    [][(IsCall /\ unavailable_state)
          => IF now > unavailable_retry_time
             THEN /\ n_started' = n_started + 1
                  /\ last'.req = <<FALSE, 0>>
                  /\ last'.outcome # "conflict"
                        => ~unavailable_state' /\ unavailable_retry_time' = 0
             ELSE /\ n_started' = n_started
                  /\ last'.outcome = "dropped"
                  /\ unavailable_state']_vars

\* a window was entered, a call inside it was dropped, and a call one second
\* past the resume timestamp cleared it and issued its request
C2_Witness ==
    /\ conflict.vm # "none"
    /\ conflict.resume > 0
    /\ now = conflict.resume + 1
    /\ n_calls = 3
    /\ n_started = 2
    /\ last.outcome = "ok"
    /\ last.req = <<FALSE, 0>>
    /\ ~unavailable_state
    /\ unavailable_retry_time = 0

\* C10: a start request that fails with a conflict puts the controller in the
\* cool-down window with resume timestamp = current time + unavailable_timeout,
\* leaves the VM's starting flag false and raises nothing to the caller.
C10_ConflictEntersWindow ==
    [][(IsCall /\ last'.outcome = "conflict")
          => /\ unavailable_state'
             /\ unavailable_retry_time' = now + unavailable_timeout
             /\ ~vms'[last'.vm].starting
             /\ ~last'.raised]_vars

\* a conflict on a VM that was starting, under the default window of 600 s
C10_Witness ==
    /\ last.outcome = "conflict"
    /\ unavailable_timeout = 600
    /\ now > 0
    /\ unavailable_state
    /\ unavailable_retry_time = now + 600
    /\ vms[last.vm].state = STARTING
    /\ ~vms[last.vm].starting

---------------------------------------------------------------------------
(* Claims about install_extensions and process_vm *)

\* the latest process_vm got an extension listing back
Listed == result = "ok" \/ Len(cmds) > 1

\* the install commands among the commands of the latest process_vm
InstallCmds == SubSeq(cmds, 2, Len(cmds))

\* the key under which the platform lists what an install command installs
ListedAs(c) == IF c.instance # "" THEN c.instance ELSE c.name

\* C5: a failure while processing one VM does not end the run: the VMs that
\* follow it are still processed.  (The code lets the exception of run_az_cmd
\* leave process_vm and install_extensions.)
C5_FailureDoesNotAbort ==
    ~(pc = "aborted" /\ result = "raised" /\ Len(queue) > 1)

\* C7: process_vm always reaches the extension listing: the wait loop makes
\* at most 600/15 re-fetches, it is left only with the VM running or the
\* timeout elapsed, and the listing follows either way.
C7_ReachesListing ==
    /\ [](refetches <= TIMEOUT_SECONDS \div INTERVAL)
    /\ []((pc = "extensions" /\ ~is_running(vm_local))
             => now - timeout_start >= TIMEOUT_SECONDS)
    /\ [][(pc = "wait" /\ is_running(vm_local)) => pc' = "extensions"]_vars
    /\ ((pc \in {"wait", "extensions"}) ~> (pc \notin {"wait", "extensions"} /\ cmds # <<>>))

\* the timeout elapsed after 40 re-fetches with the VM still not running, and
\* the listing and installs were carried out
C7_Witness ==
    /\ result = "ok"
    /\ ~is_running(vm_local)
    /\ refetches = 40
    /\ now - timeout_start = 600
    /\ Len(cmds) = 5

\* C8: once process_vm has its listing, it issues exactly one install command
\* for each extension of the VM's OS that the listing lacks, and none for one
\* it holds.  (An install command that fails ends process_vm, see C5.)
C8_OneInstallPerMissing ==
    (result # "none" /\ Listed)
       => \A n \in Required(vm_local.is_linux) :
            Cardinality({i \in 1..Len(InstallCmds) : ListedAs(InstallCmds[i]) = n})
               = IF n \in extensions THEN 0 ELSE 1

\* C9: a second process_vm in a row on a VM whose listing holds all four
\* required extensions, as it did in the first, issues no install command.
C9_SecondRunInstallsNothing ==
    (/\ result # "none"
     /\ prev.name = vm_local.name
     /\ prev.full
     /\ Listed
     /\ Required(vm_local.is_linux) \subseteq extensions)
       => InstallCmds = <<>>

\* the second run on the same VM, all four extensions listed both times
C9_Witness ==
    /\ run = 2
    /\ result = "ok"
    /\ prev.name = vm_local.name
    /\ prev.full
    /\ extensions = Required(vm_local.is_linux)
    /\ cmds # <<>>
    /\ InstallCmds = <<>>

---------------------------------------------------------------------------
(* Claims about remove_orphaned_account, checked under SpecOrphan *)

\* the assignment of the live list that has the id `role_id`
assignment_of(role_id) == AssignmentPool[role_id]

Collected == pairs_of(roles_to_remove_by_scope)

Deleted == {pair \in Pairs : deletes[pair] > 0}

\* C3: in both entry modes a role assignment id is in the removal set, or is
\* deleted, only if it is the id of a live assignment whose principal was looked
\* up in the directory and the lookup failed with an error that contains
\* "does not exist"; no assignment of a principal whose lookup succeeded or
\* failed with another error is collected.
C3_OnlyOrphansCollected ==
    /\ \A pair \in Collected \cup Deleted :
          LET a == assignment_of(pair[2])
          IN  /\ \E i \in 1..Len(assignments) : assignments[i] = a
              /\ lookups[a.principalId] >= 1
              /\ directory[a.principalId] = "does not exist"
    /\ \A i \in 1..Len(assignments) :
          directory[assignments[i].principalId] # "does not exist"
              => \A pair \in Collected \cup Deleted : pair[2] # assignments[i].id

\* a run from a report in which one principal is gone, another one's lookup
\* failed unexpectedly and has a live assignment, and ids were collected
C3_Witness ==
    /\ json_file
    /\ o_pc = "done"
    /\ Collected # {}
    /\ \E i \in 1..Len(assignments) :
          /\ directory[assignments[i].principalId] \in {"failure", "empty"}
          /\ lookups[assignments[i].principalId] >= 1

\* C4: with dry_run true no "role assignment delete" command is issued in
\* either entry mode, and when the run ends each pair of the removal set has
\* been printed once and nothing else has.
C4_DryRunDeletesNothing ==
    dry_run =>
        /\ \A pair \in Pairs : deletes[pair] = 0 /\ errors[pair] = 0
        /\ o_pc = "done" =>
              \A pair \in Pairs : prints[pair] = IF pair \in Collected THEN 1 ELSE 0

\* a finished dry run with a removal set of two pairs
C4_Witness ==
    /\ dry_run
    /\ o_pc = "done"
    /\ Cardinality(Collected) >= 2
    /\ \A pair \in Collected : prints[pair] = 1

\* C6: with dry_run false one delete command at a time is issued, never two
\* for one pair; when the run ends every collected (scope, role_id) pair has
\* had exactly one delete command, whether or not other commands failed, and
\* the error summary holds one message per failed command.
C6_EveryPairDeletedOnce ==
    /\ [](~dry_run =>
            /\ \A pair \in Pairs : deletes[pair] <= 1 /\ errors[pair] = failures[pair]
            /\ o_pc = "done" =>
                  \A pair \in Pairs :
                      deletes[pair] = IF pair \in Collected THEN 1 ELSE 0)
    /\ [][Cardinality({pair \in Pairs : deletes'[pair] # deletes[pair]}) <= 1]_vars

\* a finished run in which one delete command failed and a later one was
\* still issued
C6_Witness ==
    /\ ~dry_run
    /\ o_pc = "done"
    /\ Cardinality(Collected) >= 2
    /\ \E pair \in Collected : failures[pair] = 1 /\ errors[pair] = 1
    /\ \E pair \in Collected : failures[pair] = 0 /\ deletes[pair] = 1

\* C11: a start request that fails with an exception other than a conflict
\* leaves the VM's starting flag false and the rest of the VM as it was,
\* whether or not the message holds the benign text; the controller is not in
\* the cool-down window afterwards, nothing is raised to the caller, and the
\* text decides only between a warning and an error in the log.
C11_OtherFailureClearsStarting ==
    [][(IsCall /\ last'.outcome \in {"benign", "error"})
          => /\ ~vms'[last'.vm].starting
             /\ vms' = [vms EXCEPT ![last'.vm].starting = FALSE]
             /\ ~unavailable_state'
             /\ <<unavailable_state', unavailable_retry_time'>> = last'.req
             /\ ~last'.raised
             /\ last'.log = IF last'.outcome = "benign" THEN "warning" ELSE "error"]_vars

\* a start request failed with the benign message on a VM that was fetched
\* as starting, after an earlier window had run out
C11_Witness ==
    /\ last.outcome = "benign"
    /\ last.log = "warning"
    /\ conflict.vm # "none"
    /\ now > conflict.resume
    /\ vms[last.vm].state = STARTING
    /\ vms[last.vm].start_time = now
    /\ ~vms[last.vm].starting
    /\ ~unavailable_state

---------------------------------------------------------------------------
(* Claims about AzureVmState and the fetches, checked under SpecVm *)

\* a step that is one operation `op` of the client
IsOp(op) == ticks' = ticks /\ last'.op = op

\* C12: after on_start() on a VM object, is_starting_or_running() is true of
\* it, whatever state it held before (any known state, or an unknown one).
C12_OnStartThenStartingOrRunning ==
    [][IsOp("on_start")
          => /\ is_starting_or_running(vms'[last'.vm])
             /\ vms'[last'.vm].starting]_vars

\* on_start() was called on a VM that was deallocating
C12_Witness ==
    /\ last.op = "on_start"
    /\ vms[last.vm].deallocate_time > 0
    /\ vms[last.vm].start_time > vms[last.vm].deallocate_time
    /\ is_starting_or_running(vms[last.vm])

\* C13: no VM object exists with is_linux = is_windows; a get_vm_state for a
\* VM whose OS profile exposes neither configuration, or both, raises and
\* yields no object, and so does a list_vms over a fleet that holds such a VM.
C13_OsFlagsExclusive ==
    /\ [](\A v \in VmNames : vms[v] # NoVm => vms[v].is_linux # vms[v].is_windows)
    /\ [][(/\ IsOp("get_vm_state")
           /\ os_profile[last'.vm].linux_configuration
                 = os_profile[last'.vm].windows_configuration)
             => last'.raised /\ vms' = vms]_vars
    /\ [][(/\ IsOp("list_vms")
           /\ \E v \in VmNames :
                 os_profile[v].linux_configuration = os_profile[v].windows_configuration)
             => last'.raised /\ vms' = vms]_vars

\* list_vms failed on a fleet whose first VM exposes both configurations,
\* after the second VM had been fetched by itself
C13_Witness ==
    /\ last.op = "list_vms"
    /\ last.raised
    /\ os_profile["vm1"] = BothOs
    /\ vms["vm1"] = NoVm
    /\ vms["vm2"] # NoVm
    /\ vms["vm2"].is_linux /\ ~vms["vm2"].is_windows

\* the report entries with which check_orphans was called, by index
BeforeIndexes == 1..Len(data.before)

\* check_orphans has run in this state
Filtered == json_file /\ data.has_key /\ o_pc # "start"

\* C14: check_orphans leaves no entry whose principal resolves to an existing
\* user, however many entries share the principal; what it leaves is the
\* entries of principals that do not exist, in their order; and the count it
\* reports is the number of entries dropped, before length minus after length.
C14_ExistingUsersFiltered ==
    Filtered =>
        /\ \A i \in BeforeIndexes :
              directory[data.before[i].UserName] = "user"
                 => \A j \in 1..Len(data.entries) :
                       data.entries[j].UserName # data.before[i].UserName
        /\ data.entries =
              SelectSeq(data.before, LAMBDA e : directory[e.UserName] = "does not exist")
        /\ data.removed = Len(data.before) - Len(data.entries)
        /\ data.removed =
              Cardinality({i \in BeforeIndexes :
                              directory[data.before[i].UserName] # "does not exist"})

\* a report of two entries that share a principal which is an existing user:
\* both are removed and the count is 2
C14_Witness ==
    /\ Filtered
    /\ Len(data.before) = 2
    /\ data.before[1].UserName = data.before[2].UserName
    /\ data.before[1].Scope # data.before[2].Scope
    /\ directory[data.before[1].UserName] = "user"
    /\ data.entries = <<>>
    /\ data.removed = 2

\* a step that is one round of the loop of find_orphaned_roles
IsFindStep == o_pc = "find" /\ pos' = pos + 1

\* C15: in the discovery scan a round for an assignment whose principalType is
\* not "User" makes no lookup and adds nothing to the known-good set or to the
\* orphan set, and the id of such an assignment is never in the orphan set,
\* whatever the directory would answer for its principal.
C15_NonUsersUntouched ==
    /\ [][(IsFindStep /\ items[pos].principalType # "User")
             => /\ lookups' = lookups
                /\ known_good_users' = known_good_users
                /\ roles_to_remove_by_scope' = roles_to_remove_by_scope]_vars
    /\ [](~json_file =>
            \A i \in 1..Len(items) :
               items[i].principalType # "User"
                  => /\ \A pair \in Collected \cup Deleted : pair[2] # items[i].id
                     /\ (\A j \in 1..Len(items) :
                            items[j].principalId = items[i].principalId
                               => items[j].principalType # "User")
                           => /\ lookups[items[i].principalId] = 0
                              /\ items[i].principalId \notin known_good_users)

\* a finished scan over a service principal whose lookup would say "does not
\* exist" and a user that is gone: only the user's assignment was collected
C15_Witness ==
    /\ ~json_file
    /\ o_pc = "done"
    /\ Collected # {}
    /\ \E i \in 1..Len(items) :
          /\ items[i].principalType # "User"
          /\ directory[items[i].principalId] = "does not exist"
          /\ lookups[items[i].principalId] = 0
          /\ items[i].principalId \notin known_good_users

\* the number of surviving report entries the collection loop has handled
Handled == IF o_pc \in {"collect", "aborted"} THEN pos - 1 ELSE Len(data.entries)

\* C16: in report mode the removal set is exactly, for each surviving report
\* entry handled so far, the ids of the live assignments of the entry's scope
\* whose principalId is the entry's principal, each under that scope; every
\* scope appears once in it and with at least one id.
C16_RemovalSetIsMatchingIds ==
    Filtered =>
        /\ Collected =
              {<<data.entries[i].Scope, assignments[k].id>> :
                  <<i, k>> \in {ik \in (1..Handled) \X (1..Len(assignments)) :
                      /\ assignments[ik[2]].scope = data.entries[ik[1]].Scope
                      /\ assignments[ik[2]].principalId = data.entries[ik[1]].UserName}}
        /\ \A i, j \in 1..Len(roles_to_remove_by_scope) :
              /\ roles_to_remove_by_scope[i].roles # {}
              /\ roles_to_remove_by_scope[i].scope = roles_to_remove_by_scope[j].scope
                    => i = j

\* two surviving entries of one principal in two scopes, a live list that holds
\* an assignment of another principal in the first scope: the principal's two
\* ids are collected, each under its scope, and the other id is not
C16_Witness ==
    /\ Filtered
    /\ o_pc = "done"
    /\ Len(data.entries) = 2
    /\ data.entries[1].Scope # data.entries[2].Scope
    /\ Len(roles_to_remove_by_scope) = 2
    /\ \E k \in 1..Len(assignments) :
          /\ assignments[k].scope = data.entries[1].Scope
          /\ assignments[k].principalId # data.entries[1].UserName
          /\ <<assignments[k].scope, assignments[k].id>> \notin Collected

---------------------------------------------------------------------------
(* Claims about run_az_cmd, checked under SpecAz *)

\* run_az_cmd has been called in this state
Called == az_calls > 0

\* what the claims say of a non-zero exit code and of no output at all
ExitAndNoOutputCases ==
    /\ az_call.result.returncode # 0
          => /\ az_outcome.kind = "raise"
             /\ \E i \in 1..Len(az_outcome.message) :
                   az_outcome.message[i] = az_call.result.stderr
    /\ (az_call.result.returncode = 0 /\ az_call.result.stdout = "")
          => IF az_call.no_data_ok
             THEN az_outcome.kind = "return" /\ az_outcome.value = EmptyResult
             ELSE az_outcome.kind = "raise"

\* C17 as stated: a non-zero exit code raises an error that carries stderr,
\* exit 0 with any non-empty output returns the parsed JSON, exit 0 with no
\* output returns an empty result if no_data_ok and raises otherwise, and the
\* process is run once per call.
C17_ThreeOutcomes ==
    Called =>
        /\ ExitAndNoOutputCases
        /\ (az_call.result.returncode = 0 /\ az_call.result.stdout # "")
              => az_outcome.kind = "return" /\ az_outcome.parsed
        /\ az_runs = az_calls

\* C17 amended: as stated, but exit 0 with non-empty output returns the parsed
\* JSON only when the output is JSON; otherwise the parser's error is raised,
\* which carries neither the description nor stderr.
C17_FourOutcomes ==
    Called =>
        /\ ExitAndNoOutputCases
        /\ (az_call.result.returncode = 0 /\ az_call.result.stdout # "")
              => IF json_loads(az_call.result.stdout).ok
                 THEN /\ az_outcome.kind = "return"
                      /\ az_outcome.value = json_loads(az_call.result.stdout).value
                 ELSE /\ az_outcome.kind = "raise"
                      /\ az_outcome.error = "JSONDecodeError"
                      /\ az_outcome.message = <<>>
        /\ az_runs = az_calls

\* a second call in a row whose process exits 0 and prints text that is not
\* JSON, on its error stream too: the parser's error is raised
C17_Witness ==
    /\ az_calls = 2
    /\ az_runs = 2
    /\ az_call.result.returncode = 0
    /\ az_call.result.stdout = "not json"
    /\ az_call.result.stderr # ""
    /\ az_call.no_data_ok
    /\ az_outcome.kind = "raise"
    /\ az_outcome.error = "JSONDecodeError"

---------------------------------------------------------------------------
(* Claims about get_power_state, checked under SpecPower *)

\* the places of the status list whose code is non-empty and starts with
\* "PowerState"
Qualifying ==
    {i \in 1..Len(view_statuses) :
        view_statuses[i] # "" /\ startswith_PowerState(view_statuses[i])}

\* C18: get_power_state returns the code of the first entry of the status
\* list, in list order, whose code is non-empty and starts with "PowerState",
\* and "unknown" when there is none, the empty list included.
C18_FirstPowerStateCode ==
    power_state # "none" =>
        IF Qualifying = {}
        THEN power_state = "unknown"
        ELSE \E i \in Qualifying :
                /\ \A j \in Qualifying : i <= j
                /\ power_state = view_statuses[i]

\* a list of a provisioning status and two different power states: the first
\* power state is returned
C18_Witness ==
    /\ Len(view_statuses) = 3
    /\ view_statuses[1] = "ProvisioningState/succeeded"
    /\ view_statuses[2] = DEALLOCATING
    /\ view_statuses[3] = RUNNING
    /\ power_state = DEALLOCATING

\* C19: when the discovery scan has ended, every listed assignment of type
\* "User" whose principal's lookup says "does not exist" is in the orphan set
\* under its scope, also when several assignments share the principal.  (The
\* code puts the principal in known_good_users before the lookup, so only the
\* first assignment of an orphaned principal is collected.)
C19_AllOrphanedCollected ==
    (~json_file /\ o_pc \in {"delete", "done"}) =>
        \A i \in 1..Len(items) :
            (items[i].principalType = "User"
                /\ directory[items[i].principalId] = "does not exist")
               => <<items[i].scope, items[i].id>> \in Collected

---------------------------------------------------------------------------
(* Claims about the start and the wait of process_vm, checked under SpecInstall *)

\* a step that is the entry of process_vm for the next VM
IsEnter == pc = "process" /\ pc' \in {"wait", "extensions"}

\* C20: process_vm calls try_start_vm once, at entry and before any re-fetch,
\* when the VM is not running, and not at all when it is running, in which case
\* it goes to the listing without a re-fetch; no step of the wait loop or of
\* the listing and installs calls try_start_vm, and none after the loop
\* re-fetches the state.
C20_OneStartAtEntry ==
    /\ [][IsEnter =>
            (/\ refetches' = 0
             /\ IF Head(queue).state = RUNNING
                THEN /\ n_calls' = n_calls
                     /\ n_started' = n_started
                     /\ vm_local' = Head(queue)
                     /\ pc' = "extensions"
                ELSE /\ n_calls' = n_calls + 1
                     /\ last'.vm = Head(queue).name
                     /\ pc' = "wait")]_vars
    /\ [][(pc \in {"wait", "extensions"})
             => (n_calls' = n_calls /\ n_started' = n_started)]_vars
    /\ [][(pc = "extensions")
             => (refetches' = refetches /\ vm_local' = vm_local)]_vars

\* the VM was deallocated at entry, its start was requested once, and the
\* wait loop ended after 40 re-fetches without another call
C20_Witness ==
    /\ pc = "extensions"
    /\ run = 1
    /\ refetches = 40
    /\ ~is_running(vm_local)
    /\ n_calls = 1
    /\ n_started = 1
    /\ last.vm = vm_local.name
    /\ last.outcome = "ok"

---------------------------------------------------------------------------
(* Claims about try_start_vm on every kind of VM object, checked under SpecVm *)

\* C21: a try_start_vm call whose start request is issued and succeeds leaves
\* the VM with starting true, state "PowerState/starting", deallocating false
\* and the start time of the call, its other fields as they were, and leaves
\* the controller's unavailable_state false.
C21_StartedVmIsStarting ==
    [][(IsOp("try_start_vm") /\ last'.outcome = "ok")
          => (/\ last'.issued
              /\ vms'[last'.vm].starting
              /\ vms'[last'.vm].state = STARTING
              /\ ~vms'[last'.vm].deallocating
              /\ vms' = [vms EXCEPT ![last'.vm].starting = TRUE,
                                    ![last'.vm].state = STARTING,
                                    ![last'.vm].deallocating = FALSE,
                                    ![last'.vm].start_time = now]
              /\ ~unavailable_state')]_vars

\* a start request succeeded, after an earlier window had run out, on a VM that
\* had been deallocating
C21_Witness ==
    /\ last.op = "try_start_vm"
    /\ last.outcome = "ok"
    /\ now > DEFAULT_UNAVAILABLE_TIMEOUT
    /\ vms[last.vm].deallocate_time > 0
    /\ vms[last.vm].start_time = now
    /\ vms[last.vm].starting
    /\ ~vms[last.vm].deallocating
    /\ ~unavailable_state

\* C22: a try_start_vm call made while unavailable_state is set and the time
\* has not passed unavailable_retry_time is dropped: no start request is
\* issued, every VM object (state, flags, timestamps) and the controller's
\* unavailable_state and unavailable_retry_time are as before, and nothing is
\* raised.
C22_DroppedCallChangesNothing ==
    [][(IsOp("try_start_vm") /\ unavailable_state /\ now <= unavailable_retry_time)
          => (/\ last'.outcome = "dropped"
              /\ ~last'.issued
              /\ ~last'.raised
              /\ vms' = vms
              /\ unavailable_state' = unavailable_state
              /\ unavailable_retry_time' = unavailable_retry_time)]_vars

\* a call was dropped at the last instant of the window for a VM that had
\* been marked as starting earlier
C22_Witness ==
    /\ last.op = "try_start_vm"
    /\ last.outcome = "dropped"
    /\ unavailable_state
    /\ now = unavailable_retry_time
    /\ now > 0
    /\ vms[last.vm].starting
    /\ vms[last.vm].start_time < now

---------------------------------------------------------------------------
(* Claims about the lookups and the listings of one run, checked under
   SpecOrphan *)

\* the assignments of the listing that name principal q as a user
UserItemsOf(q) ==
    {i \in 1..Len(items) : is_user(items[i]) /\ items[i].principalId = q}

\* C23: in the discovery-driven scan the directory lookup is made at most
\* once per distinct principal id: once a principal id has been looked up,
\* whatever the lookup gave, a later role assignment with that principal id
\* makes no further lookup.
C23_OneLookupPerPrincipal ==
    /\ ~json_file => \A q \in Principals : lookups[q] <= 1
    /\ (~json_file /\ o_pc \in {"find", "delete", "done"})
          => \A q \in Principals :
                lookups[q] = IF \E i \in UserItemsOf(q) : i < pos THEN 1 ELSE 0

\* a scan is over in which a principal with two user assignments got an
\* unexpected lookup error, and was looked up once
C23_Witness ==
    /\ ~json_file
    /\ o_pc = "done"
    /\ \E q \in Principals :
          /\ Cardinality(UserItemsOf(q)) >= 2
          /\ directory[q] = "failure"
          /\ lookups[q] = 1

\* the surviving report entries that name scope s
EntriesOf(s) == {i \in 1..Len(data.entries) : data.entries[i].Scope = s}

\* C24: in report-driven mode the live role-assignment list of a scope is
\* fetched at most once, however many surviving report entries name the
\* scope; a later entry with the same scope uses the list fetched before.
C24_OneFetchPerScope ==
    json_file =>
        /\ \A s \in Scopes : fetches[s] <= 1
        /\ fetches["--all"] = 0
        /\ o_pc \in {"delete", "done"} /\ data.has_key /\ data.entries # <<>>
              => \A s \in Scopes : fetches[s] = IF EntriesOf(s) # {} THEN 1 ELSE 0

\* two surviving entries of different principals named the same scope, and
\* the scope's list was fetched once and served both
C24_Witness ==
    /\ json_file
    /\ o_pc = "done"
    /\ \E s \in Scopes :
          /\ Cardinality(EntriesOf(s)) = 2
          /\ Cardinality({data.entries[i].UserName : i \in EntriesOf(s)}) = 2
          /\ fetches[s] = 1
          /\ Cardinality({pr \in Collected : pr[1] = s}) >= 2

---------------------------------------------------------------------------
(* Claims about the fields of every AzureVmState object, checked under SpecVm *)

\* the VM objects the client holds
Held == {v \in VmNames : vms[v] # NoVm}

\* C25: after construction and after any sequence of on_start, on_deallocate
\* and try_start_vm calls on a VM object, its transition flags agree with its
\* state: starting implies the state is PowerState/starting, deallocating
\* implies the state is PowerState/deallocating, and the two flags are never
\* both true.
C25_FlagsAgreeWithState ==
    \A v \in Held :
        /\ vms[v].starting => vms[v].state = STARTING
        /\ vms[v].deallocating => vms[v].state = DEALLOCATING
        /\ ~(vms[v].starting /\ vms[v].deallocating)

\* an object that was started, then deallocated, has just been through a
\* try_start_vm call that the platform refused
C25_Witness ==
    /\ last.op = "try_start_vm"
    /\ last.outcome = "conflict"
    /\ vms[last.vm].start_time > 0
    /\ vms[last.vm].deallocate_time > vms[last.vm].start_time
    /\ vms[last.vm].deallocating
    /\ ~vms[last.vm].starting

\* C26: the classification predicates partition the power states: each of the
\* five known states satisfies exactly one of is_deallocated (deallocated,
\* deallocating, stopped) and is_starting_or_running (running, starting),
\* is_running implies is_starting_or_running, and a state is unknown iff it
\* satisfies neither is_deallocated nor is_starting_or_running.
C26_PredicatesPartition ==
    \A v \in Held :
        /\ vms[v].state \in KNOWN_STATES
              => (is_deallocated(vms[v]) # is_starting_or_running(vms[v]))
        /\ is_deallocated(vms[v]) <=> vms[v].state \in {DEALLOCATED, DEALLOCATING, STOPPED}
        /\ is_starting_or_running(vms[v]) <=> vms[v].state \in {RUNNING, STARTING}
        /\ is_running(vms[v]) => is_starting_or_running(vms[v])
        /\ is_unknown_state(vms[v])
              <=> (~is_deallocated(vms[v]) /\ ~is_starting_or_running(vms[v]))

\* the client holds a stopped VM and one whose power state is not a known one
C26_Witness ==
    /\ Held = VmNames
    /\ \E v \in VmNames : vms[v].state = STOPPED /\ is_deallocated(vms[v])
    /\ \E v \in VmNames :
          vms[v].state = "PowerState/stopping" /\ is_unknown_state(vms[v])

\* no list command and no delete command has been issued, and no dry-run
\* intention printed
NoListNoDelete ==
    /\ \A s \in Scopes \cup {"--all"} : fetches[s] = 0
    /\ \A pr \in Pairs : deletes[pr] = 0 /\ prints[pr] = 0 /\ failures[pr] = 0

\* C27: in report-driven mode, when the report has no "Stale identities" key
\* or no entry survives check_orphans, remove_orphaned_account returns without
\* a role-assignment list command or a delete command; and in either mode an
\* empty removal set leads to no delete command.
C27_EarlyReturnsIssueNothing ==
    /\ (json_file /\ o_pc # "start" /\ (~data.has_key \/ data.entries = <<>>))
          => (o_pc = "done" /\ NoListNoDelete /\ roles_to_remove_by_scope = <<>>)
    /\ (o_pc \in {"delete", "done"} /\ roles_to_remove_by_scope = <<>>)
          => (/\ todo = <<>>
              /\ \A pr \in Pairs : deletes[pr] = 0 /\ failures[pr] = 0)

\* a report whose two entries named principals that the directory did not
\* report as missing was emptied by check_orphans, and the run returned with
\* the live list holding assignments of those principals
C27_Witness ==
    /\ json_file
    /\ ~dry_run
    /\ o_pc = "done"
    /\ data.has_key
    /\ Len(data.before) = 2
    /\ data.entries = <<>>
    /\ \E i \in 1..Len(assignments) :
          assignments[i].principalId = data.before[1].UserName
    /\ \A s \in Scopes : fetches[s] = 0
    /\ \A pr \in Pairs : deletes[pr] = 0

=============================================================================
